---- MODULE Spec2Model ----
(***************************************************************************)
(* Model of src/app.py: the numeric coercion helpers clean_money and       *)
(* clean_int, the report parser parse_rx_report, and the batch loop of the *)
(* upload page.                                                            *)
(*                                                                         *)
(* Text is a sequence of one-character strings, so that replace, split,    *)
(* strip, "in" and the numeric parsers are computed as Python computes     *)
(* them.  Python's None is the one-element sequence NoneVal, which no      *)
(* text equals (its element is not a single character).                    *)
(***************************************************************************)
EXTENDS Integers, Sequences, FiniteSets, TLC

\* ------------------------------------------------------------------ bounds
\* longest free-form cell given to the coercion helpers
MaxCellLen == 3
\* longest numeral before a footnote token in the footnoted cells
MaxNumLen == 4

\* ------------------------------------------------------------ text helpers
NoneVal == <<"None">>

\* Python truthiness of a cell that is None or a str
Truthy(x) == x # NoneVal /\ x # <<>>

DigitSeq == <<"0", "1", "2", "3", "4", "5", "6", "7", "8", "9">>
Digits == {DigitSeq[k] : k \in 1..Len(DigitSeq)}

\* The characters the bounded cells are written in.  No letter of an
\* exponent, "inf", "nan" or "_" is among them, so float() and int()
\* accept exactly the numerals PyFloat and PyInt accept below.
CellChars == {"0", "1", "5", ".", ",", " ", "$", "(", ")", "-", "x"}

RECURSIVE ReplaceChar(_, _, _)
\* str.replace(c, r) for a one-character c
ReplaceChar(s, c, r) ==
    IF s = <<>> THEN <<>>
    ELSE (IF Head(s) = c THEN r ELSE <<Head(s)>>) \o ReplaceChar(Tail(s), c, r)

HasChar(s, c) == \E k \in 1..Len(s) : s[k] = c

\* sub in s
Contains(sub, s) ==
    \E k \in 0..(Len(s) - Len(sub)) : SubSeq(s, k + 1, k + Len(sub)) = sub

RECURSIVE BeforeChar(_, _)
\* s.split(c)[0]
BeforeChar(s, c) ==
    IF s = <<>> \/ Head(s) = c THEN <<>>
    ELSE <<Head(s)>> \o BeforeChar(Tail(s), c)

RECURSIVE AfterChar(_, _)
\* what follows the first c of s (empty when s has no c)
AfterChar(s, c) ==
    IF s = <<>> THEN <<>>
    ELSE IF Head(s) = c THEN Tail(s) ELSE AfterChar(Tail(s), c)

\* the whitespace of the texts
WS == {" ", "\n"}

RECURSIVE LStrip(_)
LStrip(s) == IF s # <<>> /\ Head(s) \in WS THEN LStrip(Tail(s)) ELSE s

RECURSIVE RStrip(_)
RStrip(s) ==
    IF s # <<>> /\ s[Len(s)] \in WS THEN RStrip(SubSeq(s, 1, Len(s) - 1)) ELSE s

\* str.strip()
Strip(s) == RStrip(LStrip(s))

AllDigits(s) == \A k \in 1..Len(s) : s[k] \in Digits

DigitVal(c) == (CHOOSE k \in 1..Len(DigitSeq) : DigitSeq[k] = c) - 1

RECURSIVE DigitsVal(_)
\* the value of a digit string
DigitsVal(s) ==
    IF s = <<>> THEN 0
    ELSE 10 * DigitsVal(SubSeq(s, 1, Len(s) - 1)) + DigitVal(s[Len(s)])

RECURSIVE DropTrailingZeros(_)
DropTrailingZeros(s) ==
    IF s # <<>> /\ s[Len(s)] = "0" THEN DropTrailingZeros(SubSeq(s, 1, Len(s) - 1))
    ELSE s

\* ---------------------------------------------------------- Python numbers
\* A float is sign, mantissa and number of fraction digits, with no
\* trailing fraction zero, so that equal values are equal records
\* (12.40 = 12.4, -0.0 = 0.0).  exc marks a raised exception.
Float(neg, ip, fp) ==
    LET f == DropTrailingZeros(fp)
        m == DigitsVal(ip \o f)
    IN  [exc |-> FALSE, neg |-> (neg /\ m # 0), mant |-> m, fd |-> Len(f)]

FloatZero == [exc |-> FALSE, neg |-> FALSE, mant |-> 0, fd |-> 0]
FloatRaise == [exc |-> TRUE, neg |-> FALSE, mant |-> 0, fd |-> 0]

IntOf(v) == [exc |-> FALSE, v |-> v]
IntRaise == [exc |-> TRUE, v |-> 0]

HasSign(s) == s # <<>> /\ Head(s) \in {"-", "+"}
Unsigned(s) == IF HasSign(s) THEN Tail(s) ELSE s

\* float(s): [sign] digits [. [digits]] or [sign] . digits, else ValueError
PyFloat(s) ==
    LET t  == Unsigned(Strip(s))
        ip == BeforeChar(t, ".")
        fp == AfterChar(t, ".")
        ok == /\ AllDigits(ip) /\ AllDigits(fp)
              /\ Len(ip) + Len(fp) > 0
    IN  IF ok THEN Float(HasSign(Strip(s)) /\ Head(Strip(s)) = "-", ip, fp)
        ELSE FloatRaise

\* int(s): [sign] digits, else ValueError
PyInt(s) ==
    LET t == Unsigned(Strip(s))
    IN  IF t # <<>> /\ AllDigits(t)
        THEN IntOf(IF HasSign(Strip(s)) /\ Head(Strip(s)) = "-"
                   THEN 0 - DigitsVal(t) ELSE DigitsVal(t))
        ELSE IntRaise

\* ------------------------------------------------------- coercion helpers
\* the text clean_money hands to float()
MoneyText(cell) ==
    LET s == ReplaceChar(ReplaceChar(ReplaceChar(cell, "$", <<>>), ",", <<>>), " ", <<>>)
    IN  IF HasChar(s, "(") /\ HasChar(s, ")")
        THEN ReplaceChar(ReplaceChar(s, "(", <<"-">>), ")", <<>>)
        ELSE s

\* the text clean_int hands to int()
IntText(cell) == BeforeChar(ReplaceChar(ReplaceChar(cell, ",", <<>>), " ", <<>>), ".")

\* try: return float(s) / except: return 0.0
MoneyTry(r) == IF r.exc THEN FloatZero ELSE r

\* try: return int(s) / except: return 0
IntTry(r) == IF r.exc THEN IntOf(0) ELSE r

clean_money(cell) ==
    IF ~Truthy(cell) THEN FloatZero ELSE MoneyTry(PyFloat(MoneyText(cell)))

clean_int(cell) ==
    IF ~Truthy(cell) THEN IntOf(0) ELSE IntTry(PyInt(IntText(cell)))

\* f > 0 and f < 0
FloatPos(f) == ~f.exc /\ ~f.neg /\ f.mant > 0
FloatNeg(f) == ~f.exc /\ f.neg /\ f.mant > 0

\* ------------------------------------------------------------ more of text
LowerSeq == <<"a", "b", "c", "d", "e", "f", "g", "h", "i", "j", "k", "l", "m", "n", "o", "p", "q", "r", "s", "t", "u", "v", "w", "x", "y", "z">>
UpperSeq == <<"A", "B", "C", "D", "E", "F", "G", "H", "I", "J", "K", "L", "M", "N", "O", "P", "Q", "R", "S", "T", "U", "V", "W", "X", "Y", "Z">>

UpperChar(c) ==
    IF \E k \in 1..Len(LowerSeq) : LowerSeq[k] = c
    THEN UpperSeq[CHOOSE k \in 1..Len(LowerSeq) : LowerSeq[k] = c]
    ELSE c

\* str.upper()
Upper(s) == [k \in 1..Len(s) |-> UpperChar(s[k])]

RECURSIVE JoinSpace(_)
\* " ".join(parts)
JoinSpace(parts) ==
    IF parts = <<>> THEN <<>>
    ELSE IF Len(parts) = 1 THEN parts[1]
    ELSE parts[1] \o <<" ">> \o JoinSpace(Tail(parts))

RECURSIVE FilterTruthy(_)
\* [x for x in row if x]
FilterTruthy(row) ==
    IF row = <<>> THEN <<>>
    ELSE (IF Truthy(Head(row)) THEN <<Head(row)>> ELSE <<>>) \o FilterTruthy(Tail(row))

RECURSIVE Flatten(_)
Flatten(rows) == IF rows = <<>> THEN <<>> ELSE Head(rows) \o Flatten(Tail(rows))

\* ------------------------------------------------------- words of the code
W_MAIL == <<"M", "A", "I", "L">>
W_RETAIL == <<"R", "E", "T", "A", "I", "L">>
W_Scripts == <<"S", "c", "r", "i", "p", "t", "s">>
W_Ingredient == <<"I", "n", "g", "r", "e", "d", "i", "e", "n", "t">>
W_Total == <<"T", "o", "t", "a", "l">>
W_Cost == <<"C", "o", "s", "t">>
W_Client == <<"C", "l", "i", "e", "n", "t">>
W_ClientName == <<"C", "l", "i", "e", "n", "t", " ", "N", "a", "m", "e", ":">>
MailOrder == <<"M", "a", "i", "l", " ", "O", "r", "d", "e", "r">>
Retail == <<"R", "e", "t", "a", "i", "l">>
Brand == <<"B", "r", "a", "n", "d">>
Generic == <<"G", "e", "n", "e", "r", "i", "c">>
UnknownClient == <<"U", "n", "k", "n", "o", "w", "n", " ", "C", "l", "i", "e", "n", "t">>

\* the labels of rows that are not data (line 174)
GarbageWords == {W_Scripts, W_Ingredient, W_Total, W_Cost, W_Client}

MonthNames == <<
    <<"J", "a", "n", "u", "a", "r", "y">>,
    <<"F", "e", "b", "r", "u", "a", "r", "y">>,
    <<"M", "a", "r", "c", "h">>,
    <<"A", "p", "r", "i", "l">>,
    <<"M", "a", "y">>,
    <<"J", "u", "n", "e">>,
    <<"J", "u", "l", "y">>,
    <<"A", "u", "g", "u", "s", "t">>,
    <<"S", "e", "p", "t", "e", "m", "b", "e", "r">>,
    <<"O", "c", "t", "o", "b", "e", "r">>,
    <<"N", "o", "v", "e", "m", "b", "e", "r">>,
    <<"D", "e", "c", "e", "m", "b", "e", "r">>>>

\* ------------------------------------------------------------ page metadata
RECURSIVE SkipWS(_, _)
\* the first index from k on that holds no whitespace
SkipWS(text, k) ==
    IF k <= Len(text) /\ text[k] \in WS THEN SkipWS(text, k + 1) ELSE k

StartsAt(text, k, w) ==
    k + Len(w) - 1 <= Len(text) /\ SubSeq(text, k, k + Len(w) - 1) = w

\* where w first occurs in text (0 when it does not)
Find(text, w) ==
    IF Contains(w, text)
    THEN CHOOSE k \in 1..Len(text) :
            StartsAt(text, k, w) /\ \A j \in 1..(k - 1) : ~StartsAt(text, j, w)
    ELSE 0

\* page.extract_text() or ""
TextOf(raw) == IF raw = NoneVal THEN <<>> ELSE raw

\* re.search(r"Client Name:\s*(.*)", text).group(1).strip(): the
\* whitespace after the colon is skipped, newlines too, and the capture
\* runs to the end of that line
ClientNameIn(text) ==
    LET k    == Find(text, W_ClientName)
        from == SkipWS(text, k + Len(W_ClientName))
    IN  Strip(BeforeChar(SubSeq(text, from, Len(text)), "\n"))

\* the metadata step's finding on a page: whether "Client Name:" is in the
\* text, and the name then captured
ClientDetect(text) ==
    [found |-> Contains(W_ClientName, text),
     value |-> IF Contains(W_ClientName, text) THEN ClientNameIn(text) ELSE <<>>]

\* a page without the words resets the name (no carry forward)
ClientResetAfter(client, det) == IF det.found THEN det.value ELSE UnknownClient

\* client_name after the metadata step of a page
ClientAfter(client, det) == IF det.found THEN det.value ELSE client

\* where a match of <month m>\s+\d{4} that starts at p ends (0 when none)
MonthEndAt(text, p, m) ==
    LET a == p + Len(MonthNames[m])
        b == SkipWS(text, a)
    IN  IF /\ StartsAt(text, p, MonthNames[m])
           /\ b > a
           /\ b + 3 <= Len(text)
           /\ AllDigits(SubSeq(text, b, b + 3))
        THEN b + 3 ELSE 0

MonthHits(text) ==
    {h \in (1..Len(text)) \X (1..Len(MonthNames)) : MonthEndAt(text, h[1], h[2]) # 0}

\* re.search of the month pattern: the leftmost match
MonthSearch(text) ==
    IF MonthHits(text) = {} THEN [found |-> FALSE]
    ELSE LET h == CHOOSE h \in MonthHits(text) :
                      \A g \in MonthHits(text) : h[1] <= g[1]
             e == MonthEndAt(text, h[1], h[2])
         IN  [found |-> TRUE, month |-> h[2],
              year |-> SubSeq(text, e - 3, e), raw |-> SubSeq(text, h[1], e)]

TwoDigits(n) == <<DigitSeq[(n \div 10) + 1], DigitSeq[(n % 10) + 1]>>

\* strptime(raw, "%B %Y").strftime("%Y-%m-%d"); the year 0000 raises
\* ValueError and the except keeps the matched text.  (The sample texts
\* hold no year between 0001 and 0999, whose padding depends on the
\* platform.)
MonthStr(hit) ==
    IF DigitsVal(hit.year) = 0 THEN hit.raw
    ELSE hit.year \o <<"-">> \o TwoDigits(hit.month) \o <<"-", "0", "1">>

\* the month step's finding on a page
MonthDetect(text) ==
    LET hit == MonthSearch(text)
    IN  [found |-> hit.found, value |-> IF hit.found THEN MonthStr(hit) ELSE <<>>]

\* current_month_str after the month step of a page
MonthAfter(month, det) == IF det.found THEN det.value ELSE month

\* ------------------------------------------------------------ table parsing
\* rows of a table that are searched for the channel keyword: table[:4]
HeaderRows == 4
\* a data row has at least this many cells
MinCols == 5

Take(s, n) == SubSeq(s, 1, IF Len(s) < n THEN Len(s) ELSE n)

HeaderDump(table) ==
    LET cells == FilterTruthy(Flatten(Take(table, HeaderRows)))
    IN  JoinSpace([k \in 1..Len(cells) |-> Upper(cells[k])])

\* current_channel; NoneVal stands for the skipped table ("continue")
ChannelOf(table) ==
    IF Contains(W_MAIL, HeaderDump(table)) THEN MailOrder
    ELSE IF Contains(W_RETAIL, HeaderDump(table)) THEN Retail
    ELSE NoneVal

RowStr(row) == JoinSpace(FilterTruthy(row))

IsHeaderRow(row) ==
    Contains(W_Scripts, RowStr(row)) /\ Contains(W_Ingredient, RowStr(row))

\* the first column-header row of the table (0 when it has none)
HeaderAt(table) ==
    IF \E r \in 1..Len(table) : IsHeaderRow(table[r])
    THEN CHOOSE r \in 1..Len(table) :
            IsHeaderRow(table[r]) /\ \A q \in 1..(r - 1) : ~IsHeaderRow(table[q])
    ELSE 0

\* script_indices, as the set of its (0-based) members
ScriptIndices(row) ==
    {c \in 0..(Len(row) - 1) : Truthy(row[c + 1]) /\ Contains(W_Scripts, row[c + 1])}

SetMin(S) == CHOOSE x \in S : \A y \in S : x <= y

brand_idx(row) ==
    IF ScriptIndices(row) = {} THEN -1 ELSE SetMin(ScriptIndices(row))

generic_idx(row) ==
    IF Cardinality(ScriptIndices(row)) >= 2
    THEN SetMin(ScriptIndices(row) \ {brand_idx(row)})
    ELSE -1

\* clean_row
CleanRow(row) == [k \in 1..Len(row) |-> IF Truthy(row[k]) THEN Strip(row[k]) ELSE <<>>]

\* any(x in row_label for x in [...])
GarbageLabel(label) == \E w \in GarbageWords : Contains(w, label)

\* the rows the data loop passes over
SkipRow(cr) == Len(cr) < MinCols \/ ~Truthy(cr[1]) \/ GarbageLabel(cr[1])

\* the block of six columns that starts at column idx: the record it
\* appends, if any.  An exception in the block is passed over.
Block(cr, idx, drug, channel) ==
    IF idx # -1 /\ Len(cr) > idx + 5
    THEN LET scripts == clean_int(cr[idx + 1])
             ingr    == clean_money(cr[idx + 2])
             fee     == clean_money(cr[idx + 3])
             gross   == clean_money(cr[idx + 4])
             member  == clean_money(cr[idx + 5])
             plan    == clean_money(cr[idx + 6])
         IN  IF scripts.exc \/ gross.exc \/ plan.exc THEN <<>>
             ELSE IF scripts.v > 0 \/ FloatPos(gross)
             THEN IF ingr.exc \/ fee.exc \/ member.exc THEN <<>>
                  ELSE <<[cohort_group |-> cr[1], delivery_channel |-> channel,
                          drug_type |-> drug, scripts |-> scripts.v,
                          ingredient_cost |-> ingr, dispensing_fee |-> fee,
                          gross_cost |-> gross, member_pay |-> member,
                          plan_pay |-> plan]>>
             ELSE <<>>
    ELSE <<>>

\* no row is passed over
RowRecordsNoSkip(row, b, g, channel) ==
    Block(CleanRow(row), b, Brand, channel) \o Block(CleanRow(row), g, Generic, channel)

\* what one data row appends
RowRecords(row, b, g, channel) ==
    IF SkipRow(CleanRow(row)) THEN <<>>
    ELSE Block(CleanRow(row), b, Brand, channel)
         \o Block(CleanRow(row), g, Generic, channel)

\* what one table appends
TableRecords(table) ==
    IF table = <<>> THEN <<>>
    ELSE IF ChannelOf(table) = NoneVal THEN <<>>
    ELSE IF HeaderAt(table) = 0 THEN <<>>
    ELSE LET h == HeaderAt(table)
         IN  Flatten([k \in 1..(Len(table) - h) |->
                 RowRecords(table[h + k], brand_idx(table[h]),
                            generic_idx(table[h]), ChannelOf(table))])

\* what the tables of one page append, before the page's tags are added
PageRows(tables) == Flatten([k \in 1..Len(tables) |-> TableRecords(tables[k])])

\* the dict appended to records
Tagged(r, client, month) ==
    [client_name |-> client, report_month |-> month,
     cohort_group |-> r.cohort_group, delivery_channel |-> r.delivery_channel,
     drug_type |-> r.drug_type, scripts |-> r.scripts,
     ingredient_cost |-> r.ingredient_cost, dispensing_fee |-> r.dispensing_fee,
     gross_cost |-> r.gross_cost, member_pay |-> r.member_pay,
     plan_pay |-> r.plan_pay]

\* ------------------------------------------------------- sample documents
\* a mail-order table with a Brand and a Generic block of six columns
MailTable == <<
    <<<<"M", "a", "i", "l", " ", "O", "r", "d", "e", "r", " ", "P", "h", "a", "r", "m", "a", "c", "y">>,
       NoneVal, NoneVal, NoneVal, NoneVal, NoneVal, NoneVal, NoneVal,
       NoneVal, NoneVal, NoneVal, NoneVal, NoneVal>>,
    <<NoneVal, <<"B", "r", "a", "n", "d">>, NoneVal, NoneVal, NoneVal,
       NoneVal, NoneVal, <<"G", "e", "n", "e", "r", "i", "c">>, NoneVal,
       NoneVal, NoneVal, NoneVal, NoneVal>>,
    <<<<"C", "o", "h", "o", "r", "t">>,
       <<"S", "c", "r", "i", "p", "t", "s">>,
       <<"I", "n", "g", "r", "e", "d", "i", "e", "n", "t", " ", "C", "o", "s", "t">>,
       <<"D", "i", "s", "p", " ", "F", "e", "e">>,
       <<"G", "r", "o", "s", "s", " ", "C", "o", "s", "t">>,
       <<"M", "e", "m", "b", "e", "r", " ", "P", "a", "y">>,
       <<"P", "l", "a", "n", " ", "P", "a", "y">>,
       <<"S", "c", "r", "i", "p", "t", "s">>,
       <<"I", "n", "g", "r", "e", "d", "i", "e", "n", "t", " ", "C", "o", "s", "t">>,
       <<"D", "i", "s", "p", " ", "F", "e", "e">>,
       <<"G", "r", "o", "s", "s", " ", "C", "o", "s", "t">>,
       <<"M", "e", "m", "b", "e", "r", " ", "P", "a", "y">>,
       <<"P", "l", "a", "n", " ", "P", "a", "y">>>>,
    <<<<"A", "c", "t", "i", "v", "e">>, <<"1", "0">>,
       <<"$", "1", ",", "0", "0", "0", ".", "5", "0">>,
       <<"5", ".", "0", "0">>, <<"1", ",", "0", "0", "5", ".", "5", "0">>,
       <<"1", "0", "0", ".", "0", "0">>,
       <<" ", "9", "0", "5", ".", "5", "0", " ">>, <<"0">>, NoneVal,
       NoneVal, <<"0", ".", "0", "0">>, NoneVal, NoneVal>>,
    <<<<"T", "o", "t", "a", "l">>, <<"1", "0">>,
       <<"$", "1", ",", "0", "0", "0", ".", "5", "0">>,
       <<"5", ".", "0", "0">>, <<"1", ",", "0", "0", "5", ".", "5", "0">>,
       <<"1", "0", "0", ".", "0", "0">>, <<"9", "0", "5", ".", "5", "0">>,
       <<"0">>, NoneVal, NoneVal, <<"0", ".", "0", "0">>, NoneVal,
       NoneVal>>,
    <<<<"G", "R", "A", "N", "D", " ", "T", "O", "T", "A", "L">>,
       <<"2", "0">>, NoneVal, NoneVal,
       <<"2", ",", "0", "1", "1", ".", "0", "0">>, NoneVal,
       <<"1", ",", "8", "1", "1", ".", "0", "0">>, <<"4">>, NoneVal,
       NoneVal, <<"8", ".", "0", "0">>, NoneVal, <<"8", ".", "0", "0">>>>,
    <<<<"R", "e", "t", "i", "r", "e", "e">>, <<"-", "1">>,
       <<"7", ".", "5", "0">>, <<"0">>, <<"7", ".", "5", "0">>, <<"0">>,
       <<"(", "2", ".", "5", "0", ")">>, <<"3">>, <<"1", ".", "0", "0">>,
       <<"1", ".", "0", "0">>, <<"(", "4", ".", "0", "0", ")">>, <<"0">>,
       <<"0">>>>,
    <<<<"n", "/", "a">>, <<"1">>>>,
    <<NoneVal, <<"5">>, <<"1">>, <<"1">>, <<"1">>, <<"1">>, <<"1">>,
       <<"5">>, <<"1">>, <<"1">>, <<"1">>, <<"1">>, <<"1">>>>>>

\* a retail table with one block
RetailTable == <<
    <<<<"R", "e", "t", "a", "i", "l", " ", "P", "h", "a", "r", "m", "a", "c", "y">>,
       NoneVal, NoneVal, NoneVal, NoneVal, NoneVal, NoneVal>>,
    <<<<"G", "r", "o", "u", "p">>, <<"S", "c", "r", "i", "p", "t", "s">>,
       <<"I", "n", "g", "r", "e", "d", "i", "e", "n", "t", " ", "C", "o", "s", "t">>,
       <<"F", "e", "e">>, <<"G", "r", "o", "s", "s">>,
       <<"M", "e", "m", "b", "e", "r">>, <<"P", "l", "a", "n">>>>,
    <<<<"A", "c", "t", "i", "v", "e">>, <<"3">>,
       <<"3", "0", ".", "0", "0">>, <<"1", ".", "5", "0">>,
       <<"3", "1", ".", "5", "0">>, <<"6", ".", "0", "0">>,
       <<"2", "5", ".", "5", "0">>>>,
    <<<<"C", "O", "B", "R", "A">>, <<"0">>, <<"0">>, <<"0">>,
       <<"0", ".", "0", "0">>, <<"0">>, <<"0">>>>>>

\* a table that is not Rx data
DisclaimerTable == <<
    <<<<"N", "o", "t", "e", "s">>,
       <<"V", "a", "l", "u", "e", "s", " ", "i", "n", " ", "U", "S", "D">>>>>>

\* a channel keyword, but no column-header row
MailNoHeaderTable == <<
    <<<<"M", "a", "i", "l">>, NoneVal>>,
    <<<<"A", "c", "t", "i", "v", "e">>, <<"3">>, <<"1">>, <<"1">>,
       <<"1">>, <<"1">>, <<"1">>>>>>

\* a header row followed by rows the data loop passes over
MailSkippedTable == <<
    <<<<"M", "A", "I", "L">>, NoneVal, NoneVal, NoneVal, NoneVal,
       NoneVal, NoneVal>>,
    <<<<"G", "r", "o", "u", "p">>, <<"S", "c", "r", "i", "p", "t", "s">>,
       <<"I", "n", "g", "r", "e", "d", "i", "e", "n", "t", " ", "C", "o", "s", "t">>,
       <<"F", "e", "e">>, <<"G", "r", "o", "s", "s">>,
       <<"M", "e", "m", "b", "e", "r">>, <<"P", "l", "a", "n">>>>,
    <<<<"T", "o", "t", "a", "l">>, <<"3">>, <<"3", "0", ".", "0", "0">>,
       <<"1", ".", "5", "0">>, <<"3", "1", ".", "5", "0">>,
       <<"6", ".", "0", "0">>, <<"2", "5", ".", "5", "0">>>>,
    <<<<"P", "l", "a", "n", " ", "C", "o", "s", "t">>, <<"3">>,
       <<"3", "0", ".", "0", "0">>, <<"1", ".", "5", "0">>,
       <<"3", "1", ".", "5", "0">>, <<"6", ".", "0", "0">>,
       <<"2", "5", ".", "5", "0">>>>,
    <<<<"x">>, <<"1">>>>,
    <<<<>>, <<"3">>, <<"3", "0", ".", "0", "0">>, <<"1", ".", "5", "0">>,
       <<"3", "1", ".", "5", "0">>, <<"6", ".", "0", "0">>,
       <<"2", "5", ".", "5", "0">>>>>>

Text1 ==
    <<"R", "x", " ", "S", "u", "m", "m", "a", "r", "y", "\n",
    "C", "l", "i", "e", "n", "t", " ", "N", "a", "m", "e", ":", " ", "A", "c", "m", "e", " ", "\n",
    "J", "a", "n", "u", "a", "r", "y", " ", "2", "0", "2", "4">>
Text3 ==
    <<"C", "l", "i", "e", "n", "t", " ", "N", "a", "m", "e", ":", "\n",
    "B", "e", "t", "a", "\n",
    "R", "e", "p", "o", "r", "t", " ", "f", "o", "r", " ", "M", "a", "r", "c", "h", " ", "0", "0", "0", "0">>
Text4 ==
    <<"P", "e", "r", "i", "o", "d", ":", " ", "F", "e", "b", "r", "u", "a", "r", "y", " ", " ", "2", "0", "2", "4", "\n",
    "P", "r", "i", "n", "t", "e", "d", " ", "M", "a", "r", "c", "h", " ", "2", "0", "2", "4">>

\* The pages of the sample documents: what extract_text() and
\* extract_tables() return for each.  Page 2 has no text layer and
\* repeats the table of page 1.
PageText == <<Text1, NoneVal, Text3, Text4>>
PageTables == <<
    <<MailTable>>,
    <<MailTable>>,
    <<RetailTable>>,
    <<<<>>, DisclaimerTable, MailNoHeaderTable, MailSkippedTable>>>>
PageIds == 1..Len(PageText)

\* more bounds: pages of a document, calls of the parser by one caller,
\* files of one upload
MaxPages == 2
MaxRuns == 2
MaxFiles == 2

PageSeqs == UNION {[1..k -> PageIds] : k \in 0..MaxPages}

\* A document is its pages and how the PDF library fares on it: broken
\* "open" when pdfplumber.open raises, "page" when the extraction of its
\* last page raises, "no" when it is read to the end.
Docs ==
    {[pages |-> p, broken |-> "no"] : p \in PageSeqs}
    \cup {[pages |-> <<>>, broken |-> "open"]}
    \cup {[pages |-> p, broken |-> "page"] : p \in PageSeqs \ {<<>>}}

NoDoc == [pages |-> <<>>, broken |-> "no"]

RECURSIVE RowsUpTo(_)
RowsUpTo(n) ==
    IF n = 0 THEN <<>> ELSE Append(RowsUpTo(n - 1), PageRows(PageTables[n]))

RECURSIVE MetaUpTo(_)
MetaUpTo(n) ==
    IF n = 0 THEN <<>>
    ELSE Append(MetaUpTo(n - 1),
                [client |-> ClientDetect(TextOf(PageText[n])),
                 month |-> MonthDetect(TextOf(PageText[n]))])

\* what each sample page yields, computed once: the rows its tables
\* append and the findings of its metadata steps
RowsOfPage == RowsUpTo(Len(PageText))
MetaOfPage == MetaUpTo(Len(PageText))

\* ------------------------------------------------------------------ state
VARIABLES
    \* a call of the coercion helpers on one cell
    val, cell_pc, money_out, int_out,
    \* a call of parse_rx_report: the document, the position in it, the locals
    file, pc, page_no, records, client_name, current_month_str,
    \* the page each record was appended on (history)
    rec_page,
    \* a caller that parses one document after another: how its first call
    \* ended (history), and the calls made
    first, runs,
    \* the upload loop: len(uploaded_files), i, total_records, what each
    \* iteration did (history), the closing message
    n_files, i, total_records, log, final_msg

cellVars == <<val, cell_pc, money_out, int_out>>
parseVars == <<file, pc, page_no, records, client_name, current_month_str, rec_page>>
callerVars == <<first, runs>>
loopVars == <<n_files, i, total_records, log, final_msg>>
vars == <<cellVars, parseVars, callerVars, loopVars>>

CellIdle ==
    /\ val = NoneVal
    /\ cell_pc = "idle"
    /\ money_out = FloatZero
    /\ int_out = IntOf(0)

ParseIdle ==
    /\ file = NoDoc
    /\ pc = "idle"
    /\ page_no = 0
    /\ records = <<>>
    /\ rec_page = <<>>
    /\ client_name = UnknownClient
    /\ current_month_str = NoneVal

NoFirst == [set |-> FALSE, file |-> NoDoc, pc |-> "idle", records |-> <<>>]

CallerIdle == first = NoFirst /\ runs = 0

LoopIdle ==
    /\ n_files = 0
    /\ i = 0
    /\ total_records = 0
    /\ log = <<>>
    /\ final_msg = "none"

\* ------------------------------------------------- the helpers on one cell
Strings(n) == UNION {[1..k -> CellChars] : k \in 0..n}

\* the numerals of at most n characters
Numerals(n) == {s \in UNION {[1..k -> {"1", "2", "4", "."}] : k \in 1..n} : ~PyFloat(s).exc}

\* "<number> <footnote token>": a numeral, one space, a lone digit
FootnoteCells == {num \o <<" ", t>> : num \in Numerals(MaxNumLen), t \in {"1", "5"}}

CellInputs == {NoneVal} \cup Strings(MaxCellLen) \cup FootnoteCells

CellInit ==
    /\ val \in CellInputs
    /\ cell_pc = "input"
    /\ money_out = FloatZero
    /\ int_out = IntOf(0)
    /\ ParseIdle /\ CallerIdle /\ LoopIdle

CallCleanMoney ==
    /\ cell_pc = "input"
    /\ money_out' = clean_money(val)
    /\ cell_pc' = "money"
    /\ UNCHANGED <<val, int_out, parseVars, callerVars, loopVars>>

CallCleanInt ==
    /\ cell_pc = "money"
    /\ int_out' = clean_int(val)
    /\ cell_pc' = "done"
    /\ UNCHANGED <<val, money_out, parseVars, callerVars, loopVars>>

CellNext == CallCleanMoney \/ CallCleanInt

SpecCell == CellInit /\ [][CellNext]_vars

\* ---------------------------------------------------------- parse_rx_report
\* the locals as module-level state: the metadata of the last call survives
LocalsCarried(old) ==
    [records |-> <<>>, client_name |-> old.client_name,
     current_month_str |-> old.current_month_str]

\* records, client_name and current_month_str at entry, whatever the
\* last call left (old)
LocalsAtEntry(old) ==
    [records |-> <<>>, client_name |-> UnknownClient, current_month_str |-> NoneVal]

\* the call: the locals are set and the document is opened
Start(doc) ==
    LET l == LocalsAtEntry([records |-> records, client_name |-> client_name,
                            current_month_str |-> current_month_str])
    IN  /\ file' = doc
        /\ records' = l.records
        /\ client_name' = l.client_name
        /\ current_month_str' = l.current_month_str
        /\ rec_page' = <<>>
        /\ page_no' = 0
        /\ pc' = IF doc.broken = "open" THEN "raised" ELSE "pages"

\* the open raises, but the parser returns what it has
PageOutcomeSwallowed(raises) == IF raises THEN "returned" ELSE "pages"

\* where the page loop stands after a page whose extraction raises or not:
\* nothing in the parser catches the library's exception
PageOutcome(raises) == IF raises THEN "raised" ELSE "pages"

\* one iteration of "for page in pdf.pages"
ParsePage ==
    /\ pc = "pages"
    /\ page_no < Len(file.pages)
    /\ LET id     == file.pages[page_no + 1]
           raises == file.broken = "page" /\ page_no + 1 = Len(file.pages)
           client == ClientAfter(client_name, MetaOfPage[id].client)
           month  == MonthAfter(current_month_str, MetaOfPage[id].month)
           rows   == RowsOfPage[id]
       IN  /\ pc' = PageOutcome(raises)
           /\ IF raises
              THEN UNCHANGED <<page_no, records, rec_page, client_name, current_month_str>>
              ELSE /\ page_no' = page_no + 1
                   /\ client_name' = client
                   /\ current_month_str' = month
                   /\ records' = records \o
                          [k \in 1..Len(rows) |-> Tagged(rows[k], client, month)]
                   /\ rec_page' = rec_page \o [k \in 1..Len(rows) |-> page_no + 1]
    /\ UNCHANGED file

\* return pd.DataFrame(records)
Return ==
    /\ pc = "pages"
    /\ page_no = Len(file.pages)
    /\ pc' = "returned"
    /\ UNCHANGED <<file, page_no, records, rec_page, client_name, current_month_str>>

\* ------------------------------------- a caller that parses again and again
ParseInit == CellIdle /\ ParseIdle /\ CallerIdle /\ LoopIdle

Call ==
    /\ pc = "idle"
    /\ runs < MaxRuns
    /\ \E doc \in Docs : Start(doc)
    /\ runs' = runs + 1
    /\ UNCHANGED <<first, cellVars, loopVars>>

Collect ==
    /\ pc \in {"returned", "raised"}
    /\ first' = IF first.set THEN first
                ELSE [set |-> TRUE, file |-> file, pc |-> pc,
                      records |-> IF pc = "returned" THEN records ELSE <<>>]
    /\ pc' = "idle"
    /\ UNCHANGED <<file, page_no, records, rec_page, client_name,
                   current_month_str, runs, cellVars, loopVars>>

ParseNext ==
    \/ Call
    \/ ParsePage /\ UNCHANGED <<cellVars, callerVars, loopVars>>
    \/ Return /\ UNCHANGED <<cellVars, callerVars, loopVars>>
    \/ Collect

SpecParse == ParseInit /\ [][ParseNext]_vars

\* ------------------------------------------------------------ the upload loop
\* total_records after save_to_db(df_part) on a result of rows rows:
\* "total_records += len(df_part)" is reached only when the save returns
TotalAfterSave(total, rows, saved) == IF saved THEN total + rows ELSE total

\* an exception leaves the loop
IndexAfterBreak(idx, n, raised) == IF raised THEN n ELSE idx + 1

\* the loop index after an iteration: the except clause is inside the
\* loop body, so the loop goes on to the next file
IndexAfter(idx, n, raised) == idx + 1

\* what the iteration tells the user about a result that was not saved
EmptyMessage(rows) == "warning"

\* the state when "Process & Save to Database" is pressed on a non-empty
\* list of uploaded files
Init ==
    /\ CellIdle /\ ParseIdle /\ CallerIdle
    /\ n_files \in 1..MaxFiles
    /\ i = 0
    /\ total_records = 0
    /\ log = <<>>
    /\ final_msg = "none"

\* df_part = parse_rx_report(file), for the next uploaded file
ParseFile ==
    /\ pc = "idle"
    /\ i < n_files
    /\ \E doc \in Docs : Start(doc)
    /\ UNCHANGED <<cellVars, callerVars, loopVars>>

\* the parser has returned: save a result with rows, warn about one without
HandleResult ==
    /\ pc = "returned"
    /\ IF records # <<>>
       THEN \E saved \in BOOLEAN :
              /\ total_records' = TotalAfterSave(total_records, Len(records), saved)
              /\ log' = Append(log, [index |-> i, rows |-> Len(records),
                                     save |-> IF saved THEN "ok" ELSE "raised",
                                     msg |-> IF saved THEN "none" ELSE "error"])
              /\ i' = IndexAfter(i, n_files, ~saved)
       ELSE /\ log' = Append(log, [index |-> i, rows |-> 0, save |-> "not called",
                                   msg |-> EmptyMessage(0)])
            /\ i' = IndexAfter(i, n_files, FALSE)
            /\ UNCHANGED total_records
    /\ pc' = "idle"
    /\ UNCHANGED <<file, page_no, records, rec_page, client_name, current_month_str,
                   n_files, final_msg, cellVars, callerVars>>

\* the parser has raised: except Exception as e: st.error(...)
HandleException ==
    /\ pc = "raised"
    /\ log' = Append(log, [index |-> i, rows |-> 0, save |-> "not called",
                           msg |-> "error"])
    /\ i' = IndexAfter(i, n_files, TRUE)
    /\ pc' = "idle"
    /\ UNCHANGED <<file, page_no, records, rec_page, client_name, current_month_str,
                   n_files, total_records, final_msg, cellVars, callerVars>>

\* after the loop: the closing message
Finish ==
    /\ pc = "idle"
    /\ i >= n_files
    /\ final_msg = "none"
    /\ final_msg' = IF total_records > 0 THEN "success" ELSE "error"
    /\ UNCHANGED <<parseVars, n_files, i, total_records, log, cellVars, callerVars>>

Next ==
    \/ ParseFile
    \/ ParsePage /\ UNCHANGED <<cellVars, callerVars, loopVars>>
    \/ Return /\ UNCHANGED <<cellVars, callerVars, loopVars>>
    \/ HandleResult
    \/ HandleException
    \/ Finish

Spec == Init /\ [][Next]_vars

\* ------------------------------------------------------------------ claims
\* what the claims call a cell that cannot be parsed as a number: None,
\* the empty string, or a text that is no numeral even with its currency
\* sign, separators and blanks removed and its parentheses read as a minus
Unparseable(cell) == ~Truthy(cell) \/ PyFloat(MoneyText(cell)).exc

\* C1: neither helper raises, and for a cell that is None, empty or not
\* parseable as a number clean_money returns 0.0 and clean_int returns 0.
C1_FailsOpenToZero ==
    cell_pc = "done" =>
        /\ ~money_out.exc /\ ~int_out.exc
        /\ Unparseable(val) => (money_out = FloatZero /\ int_out = IntOf(0))

\* C2: a cell "<number> <footnote token>" coerces to the value of its first
\* whitespace-separated token; the token after the space is discarded.
C2_FootnoteDiscarded ==
    (cell_pc = "done" /\ val \in FootnoteCells) =>
        /\ money_out = clean_money(BeforeChar(val, " "))
        /\ int_out = clean_int(BeforeChar(val, " "))

\* C3: no record the parser returns has a negative scripts count or a
\* negative cost or pay value.
C3_NonNegativeFields ==
    pc = "returned" =>
        \A k \in 1..Len(records) :
            /\ records[k].scripts >= 0
            /\ ~FloatNeg(records[k].ingredient_cost)
            /\ ~FloatNeg(records[k].dispensing_fee)
            /\ ~FloatNeg(records[k].gross_cost)
            /\ ~FloatNeg(records[k].member_pay)
            /\ ~FloatNeg(records[k].plan_pay)

\* C4: the records returned for a document hold no record twice, also
\* when the document repeats a table on several pages.
C4_NoExactDuplicates ==
    pc = "returned" =>
        \A j, k \in 1..Len(records) : j < k => records[j] # records[k]

\* C5: no record comes from a row whose label contains "total" in any
\* letter case.
C5_NoTotalRows ==
    \A k \in 1..Len(records) :
        ~Contains(Upper(W_Total), Upper(records[k].cohort_group))

\* a table none of whose rows qualifies as a data row: it is empty, has no
\* channel keyword, has no column-header row, or has only rows the data
\* loop passes over after it
NoDataTable(t) ==
    \/ t = <<>>
    \/ ChannelOf(t) = NoneVal
    \/ HeaderAt(t) = 0
    \/ \A r \in (HeaderAt(t) + 1)..Len(t) : SkipRow(CleanRow(t[r]))

NoDataPages ==
    {id \in PageIds : \A t \in 1..Len(PageTables[id]) : NoDataTable(PageTables[id][t])}

NoDataDoc(d) ==
    d.broken = "no" /\ \A p \in 1..Len(d.pages) : d.pages[p] \in NoDataPages

Last(s) == s[Len(s)]

\* C6: on a readable document without a qualifying data row the parser
\* does not raise and returns no record, and the upload loop reports the
\* file with the "yielded no data" warning, saving nothing.
C6_EmptyDocument ==
    NoDataDoc(file) =>
        /\ pc # "raised"
        /\ pc = "returned" => records = <<>>
        /\ (pc = "idle" /\ log # <<>>) =>
               /\ Last(log).rows = 0
               /\ Last(log).msg = "warning"
               /\ Last(log).save = "not called"

C6_Witness ==
    /\ pc = "idle" /\ log # <<>>
    /\ NoDataDoc(file)
    /\ \E p \in 1..Len(file.pages) : PageTables[file.pages[p]] # <<>>
    /\ Last(log).msg = "warning"

\* C7: a document that cannot be opened or read never makes the parser
\* return; the exception reaches the upload loop, which reports an error
\* for the file and not the "yielded no data" warning.
C7_UnreadablePropagates ==
    file.broken # "no" =>
        /\ pc # "returned"
        /\ (pc = "idle" /\ log # <<>>) =>
               /\ Last(log).msg = "error"
               /\ Last(log).save = "not called"

C7_Witness ==
    /\ pc = "idle" /\ log # <<>>
    /\ file.broken = "page"
    /\ Len(file.pages) = MaxPages
    /\ RowsOfPage[file.pages[1]] # <<>>
    /\ Last(log).msg = "error"

\* C8: every call starts from empty records, the unknown client and no
\* month, and a call on the document of the caller's first call ends as
\* that call ended, with the same records, whatever was parsed in between.
C8_Stateless ==
    /\ (pc = "pages" /\ page_no = 0) =>
           /\ records = <<>>
           /\ client_name = UnknownClient
           /\ current_month_str = NoneVal
    /\ (first.set /\ first.file = file /\ pc \in {"returned", "raised"}) =>
           /\ first.pc = pc
           /\ pc = "returned" => first.records = records

C8_Witness ==
    /\ first.set /\ first.file = file
    /\ runs = MaxRuns
    /\ pc = "returned"
    /\ records # <<>>
    /\ records[1].client_name = UnknownClient
    /\ Last(records).client_name # UnknownClient

RECURSIVE ClientAt(_, _)
\* the client name last detected on pages 1..p of a document
ClientAt(pages, p) ==
    IF p = 0 THEN UnknownClient
    ELSE IF MetaOfPage[pages[p]].client.found THEN MetaOfPage[pages[p]].client.value
    ELSE ClientAt(pages, p - 1)

RECURSIVE MonthAt(_, _)
\* the report month last detected on pages 1..p of a document
MonthAt(pages, p) ==
    IF p = 0 THEN NoneVal
    ELSE IF MetaOfPage[pages[p]].month.found THEN MetaOfPage[pages[p]].month.value
    ELSE MonthAt(pages, p - 1)

\* C9: every record carries the client name and the month last detected
\* on its own page or a page before it ("Unknown Client" and None when
\* there was no detection yet), and keeps them as later pages are parsed.
C9_MetadataCarriedForward ==
    /\ Len(rec_page) = Len(records)
    /\ \A k \in 1..Len(records) :
           /\ records[k].client_name = ClientAt(file.pages, rec_page[k])
           /\ records[k].report_month = MonthAt(file.pages, rec_page[k])

C9_Witness ==
    /\ pc = "returned"
    /\ \E k \in 1..Len(records) :
           /\ rec_page[k] > 1
           /\ ~MetaOfPage[file.pages[rec_page[k]]].client.found
           /\ ~MetaOfPage[file.pages[rec_page[k]]].month.found
           /\ records[k].client_name # UnknownClient
           /\ records[k].report_month # NoneVal

RECURSIVE SavedRows(_)
\* the rows of the files whose save returned
SavedRows(l) ==
    IF l = <<>> THEN 0
    ELSE (IF Head(l).save = "ok" THEN Head(l).rows ELSE 0) + SavedRows(Tail(l))

\* C10: the loop handles the files once each and in order, goes on after a
\* file that raises, calls save_to_db only for results with rows, counts
\* in total_records the rows of the files whose save returned, and closes
\* with the success message exactly when total_records > 0.
C10_BatchLoop ==
    /\ \A k \in 1..Len(log) : log[k].index = k - 1
    /\ \A k \in 1..Len(log) : log[k].save # "not called" => log[k].rows > 0
    /\ total_records = SavedRows(log)
    /\ final_msg # "none" =>
           /\ Len(log) = n_files
           /\ final_msg = "success" <=> total_records > 0

C10_Witness ==
    /\ final_msg = "success"
    /\ Len(log) = MaxFiles
    /\ log[1].msg = "error"
    /\ Last(log).save = "ok"

====
